---- MODULE Spec2Model ----
(***************************************************************************)
(* gfm-highlight-compare: src/scripts/main.ts.                             *)
(*                                                                         *)
(* Strings are sequences of atoms.  An atom is one character, or, inside a *)
(* class attribute, one run of class-name characters ("pl-c", "js", the    *)
(* literal "highlight-source-").  Markup is a sequence of atoms in which   *)
(* "<", "</", ">", " class=\"" and "\"" are the structural tokens.         *)
(***************************************************************************)
EXTENDS Integers, Sequences, FiniteSets, TLC

\* ------------------------------------------------------------ bounds

\* SpecCanon: a fragment has at most this many nodes below its container.
MaxNodes == 3
\* SpecGroup: groupResults is called with at most this many results.
MaxResults == 3
\* SpecParse: a response document has at most this many top-level nodes.
MaxDocLen == 4
\* SpecParse: a marker heading's text is made of at most this many chunks.
MaxChunks == 3
\* SpecUI: at most this many input events are followed.
MaxInputs == 3

\* ------------------------------------------------------------ strings

\* String.prototype.startsWith
StartsWith(s, p) == Len(s) >= Len(p) /\ SubSeq(s, 1, Len(p)) = p

\* the positions at which pat occurs in s
Occurrences(s, pat) ==
    {i \in 1..(Len(s) - Len(pat) + 1) : SubSeq(s, i, i + Len(pat) - 1) = pat}

Min(S) == CHOOSE x \in S : \A y \in S : x <= y

\* String.prototype.replace(pat, '') with a string pattern: the first
\* occurrence of pat, wherever it is in s, is removed.
ReplaceFirst(s, pat) ==
    IF Occurrences(s, pat) = {} THEN s
    ELSE LET i == Min(Occurrences(s, pat))
         IN SubSeq(s, 1, i - 1) \o SubSeq(s, i + Len(pat), Len(s))

RECURSIVE TrimStart(_)
TrimStart(s) == IF s # <<>> /\ Head(s) = " " THEN TrimStart(Tail(s)) ELSE s

RECURSIVE TrimEnd(_)
TrimEnd(s) ==
    IF s # <<>> /\ s[Len(s)] = " " THEN TrimEnd(SubSeq(s, 1, Len(s) - 1)) ELSE s

\* String.prototype.trim
Trim(s) == TrimEnd(TrimStart(s))

\* the length of the longest prefix of s whose atoms are all in S
RECURSIVE Span(_, _)
Span(s, S) == IF s # <<>> /\ Head(s) \in S THEN 1 + Span(Tail(s), S) ELSE 0

\* the length of the longest prefix of s with no atom in S
RECURSIVE Cspan(_, _)
Cspan(s, S) == IF s # <<>> /\ Head(s) \notin S THEN 1 + Cspan(Tail(s), S) ELSE 0

\* ------------------------------------------------------------ class names

HS == "highlight-source-"

\* the class-name atoms made of the characters of [\w+#.-] only
IdentAtoms ==
    {HS, "normalized", "highlight", "markdown-heading", "pl-c", "pl-k", "pl-smi",
     "j", "s", "p", "y", "c", "+"}

RECURSIVE Split(_)
\* DOMTokenList: the whitespace-separated tokens of a class attribute, in order
Split(s) ==
    IF s = <<>> THEN <<>>
    ELSE IF Head(s) = " " THEN Split(Tail(s))
    ELSE LET n == Cspan(s, {" "})
         IN <<SubSeq(s, 1, n)>> \o Split(SubSeq(s, n + 1, Len(s)))

\* element.classList.contains(tok)
ClassListContains(cls, tok) == \E i \in 1..Len(Split(cls)) : Split(cls)[i] = <<tok>>

RECURSIVE NormalizeSourceClassOneChar(_)
\* NormalizeSourceClass with the + of the pattern lost: one ident character
\* is matched, /highlight-source-[\w+#.-]/g
NormalizeSourceClassOneChar(s) ==
    IF s = <<>> THEN <<>>
    ELSE IF Head(s) = HS /\ Len(s) >= 2 /\ s[2] \in IdentAtoms
    THEN <<HS, "normalized">> \o NormalizeSourceClassOneChar(SubSeq(s, 3, Len(s)))
    ELSE <<Head(s)>> \o NormalizeSourceClassOneChar(Tail(s))

RECURSIVE NormalizeSourceClass(_)
\* className.replace(/highlight-source-[\w+#.-]+/g, 'highlight-source-normalized'):
\* every leftmost, greedy match of the literal followed by one or more
\* ident characters is replaced.
NormalizeSourceClass(s) ==
    IF s = <<>> THEN <<>>
    ELSE IF Head(s) = HS /\ Len(s) >= 2 /\ s[2] \in IdentAtoms
    THEN <<HS, "normalized">>
         \o NormalizeSourceClass(SubSeq(s, 2 + Span(Tail(s), IdentAtoms), Len(s)))
    ELSE <<Head(s)>> \o NormalizeSourceClass(Tail(s))

\* ------------------------------------------------------------ DOM

\* A node of the scratch tree: an element (tag, class attribute, children)
\* or a text node (tag "#text").  id is the node's identity: a NodeList
\* holds ids, so it keeps naming the same nodes while the tree changes.
Elem(id, tag, hasClass, cls, kids) ==
    [id |-> id, tag |-> tag, hasClass |-> hasClass, cls |-> cls, kids |-> kids,
     text |-> <<>>]

TextNode(text) ==
    [id |-> 0, tag |-> "#text", hasClass |-> FALSE, cls |-> <<>>, kids |-> <<>>,
     text |-> text]

IsText(n) == n.tag = "#text"

LT == "<"
ETAG == "</"
GT == ">"
CLASSEQ == " class=\""
QUOTE == "\""

RECURSIVE Serialize(_)
\* innerHTML (of a list of children) / outerHTML (of <<node>>)
Serialize(nodes) ==
    IF nodes = <<>> THEN <<>>
    ELSE LET n == Head(nodes)
         IN (IF IsText(n) THEN n.text
             ELSE <<LT, n.tag>>
                  \o (IF n.hasClass THEN <<CLASSEQ>> \o n.cls \o <<QUOTE>> ELSE <<>>)
                  \o <<GT>> \o Serialize(n.kids) \o <<ETAG, n.tag, GT>>)
            \o Serialize(Tail(nodes))

RECURSIVE ParseNodes(_, _)
\* The HTML parser on well-formed markup: the sibling nodes that start at
\* position i, up to the enclosing end tag (or the end of the input).
\* A run of characters becomes ONE text node.
ParseNodes(toks, i) ==
    IF i > Len(toks) \/ toks[i] = ETAG THEN [nodes |-> <<>>, next |-> i]
    ELSE IF toks[i] = LT
    THEN LET tag == toks[i + 1]
             hasC == toks[i + 2] = CLASSEQ
             n == IF hasC THEN Cspan(SubSeq(toks, i + 3, Len(toks)), {QUOTE}) ELSE 0
             cls == IF hasC THEN SubSeq(toks, i + 3, i + 2 + n) ELSE <<>>
             gt == IF hasC THEN i + 4 + n ELSE i + 2
             inner == ParseNodes(toks, gt + 1)
             rest == ParseNodes(toks, inner.next + 3)
         IN [nodes |-> <<Elem(0, tag, hasC, cls, inner.nodes)>> \o rest.nodes,
             next |-> rest.next]
    ELSE LET n == Cspan(SubSeq(toks, i, Len(toks)), {LT, ETAG})
             rest == ParseNodes(toks, i + n)
         IN [nodes |-> <<TextNode(SubSeq(toks, i, i + n - 1))>> \o rest.nodes,
             next |-> rest.next]

RECURSIVE Number(_, _)
\* gives every element of a forest its identity: 1, 2, ... in document order
Number(nodes, from) ==
    IF nodes = <<>> THEN [nodes |-> <<>>, next |-> from]
    ELSE LET n == Head(nodes)
         IN IF IsText(n)
            THEN LET rest == Number(Tail(nodes), from)
                 IN [nodes |-> <<n>> \o rest.nodes, next |-> rest.next]
            ELSE LET sub == Number(n.kids, from + 1)
                     rest == Number(Tail(nodes), sub.next)
                 IN [nodes |-> <<[n EXCEPT !.id = from, !.kids = sub.nodes]>>
                               \o rest.nodes,
                     next |-> rest.next]

\* tempDiv.innerHTML = html: the children of tempDiv
SetInnerHTML(html) == Number(ParseNodes(html, 1).nodes, 1).nodes

RECURSIVE Elements(_)
\* the descendant elements of a list of children, in document order
Elements(nodes) ==
    IF nodes = <<>> THEN <<>>
    ELSE (IF IsText(Head(nodes)) THEN <<>>
          ELSE <<Head(nodes)>> \o Elements(Head(nodes).kids))
         \o Elements(Tail(nodes))

RECURSIVE TextContent(_)
\* Node.textContent: the text of all descendant text nodes, concatenated
TextContent(nodes) ==
    IF nodes = <<>> THEN <<>>
    ELSE (IF IsText(Head(nodes)) THEN Head(nodes).text
          ELSE TextContent(Head(nodes).kids))
         \o TextContent(Tail(nodes))

\* the element with identity id
NodeById(nodes, id) ==
    LET es == Elements(nodes)
    IN es[CHOOSE i \in 1..Len(es) : es[i].id = id]

HasNode(nodes, id) == \E i \in 1..Len(Elements(nodes)) : Elements(nodes)[i].id = id

\* Node.parentElement of the element id: 0 when the parent is tempDiv itself
ParentId(nodes, id) ==
    LET es == Elements(nodes)
        ps == {i \in 1..Len(es) :
                 \E j \in 1..Len(es[i].kids) : es[i].kids[j].id = id
                                               /\ ~IsText(es[i].kids[j])}
    IN IF ps = {} THEN 0 ELSE es[CHOOSE i \in ps : TRUE].id

RECURSIVE ReplaceNode(_, _, _)
\* the forest with the element id replaced, in place, by the nodes repl
ReplaceNode(nodes, id, repl) ==
    IF nodes = <<>> THEN <<>>
    ELSE LET n == Head(nodes)
         IN (IF IsText(n) THEN <<n>>
             ELSE IF n.id = id THEN repl
             ELSE <<[n EXCEPT !.kids = ReplaceNode(n.kids, id, repl)]>>)
            \o ReplaceNode(Tail(nodes), id, repl)

\* the identities of a sequence of elements (a static NodeList)
Ids(es) == [i \in 1..Len(es) |-> es[i].id]


RECURSIVE SpanDescendants(_, _)
\* the span elements below nodes that have a span ancestor (inSpan: the
\* nodes themselves are inside a span), in document order
SpanDescendants(nodes, inSpan) ==
    IF nodes = <<>> THEN <<>>
    ELSE LET n == Head(nodes)
         IN (IF IsText(n) THEN <<>>
             ELSE (IF inSpan /\ n.tag = "span" THEN <<n.id>> ELSE <<>>)
                  \o SpanDescendants(n.kids, inSpan \/ n.tag = "span"))
            \o SpanDescendants(Tail(nodes), inSpan)

RECURSIVE MergeText(_)
\* Node.normalize(): empty text nodes are removed and adjacent text nodes
\* are joined, at every level
MergeText(nodes) ==
    IF nodes = <<>> THEN <<>>
    ELSE LET n == Head(nodes)
             rest == MergeText(Tail(nodes))
         IN IF IsText(n)
            THEN IF n.text = <<>> THEN rest
                 ELSE IF rest # <<>> /\ IsText(Head(rest))
                      THEN <<TextNode(n.text \o Head(rest).text)>> \o Tail(rest)
                      ELSE <<n>> \o rest
            ELSE <<[n EXCEPT !.kids = MergeText(n.kids)]>> \o rest


\* ------------------------------------------------------------ canonicalization
\* groupResults, the body of results.forEach: steps 1 to 4

\* tempDiv.querySelector('.highlight'): the first element, in document
\* order, whose class list holds "highlight"; 0 when there is none
QueryHighlight(nodes) ==
    LET es == Elements(nodes)
        hit == {i \in 1..Len(es) : ClassListContains(es[i].cls, "highlight")}
    IN IF hit = {} THEN 0 ELSE es[Min(hit)].id

\* step 1: container.className = container.className.replace(...)
NormalizeContainer(nodes) ==
    LET c == QueryHighlight(nodes)
    IN IF c = 0 THEN nodes
       ELSE LET n == NodeById(nodes, c)
            IN ReplaceNode(nodes, c,
                   <<[n EXCEPT !.cls = NormalizeSourceClass(n.cls), !.hasClass = TRUE]>>)

\* tempDiv.querySelectorAll('span.pl-smi'): every span whose class list
\* holds "pl-smi", whatever else it holds
QueryPlSmi(nodes) ==
    Ids(SelectSeq(Elements(nodes),
                  LAMBDA e : e.tag = "span" /\ ClassListContains(e.cls, "pl-smi")))

RECURSIVE UnwrapEach(_, _)
\* step 2, the forEach: the children of each listed span are moved before
\* it and the span is removed
UnwrapEach(nodes, ids) ==
    IF ids = <<>> THEN nodes
    ELSE IF ~HasNode(nodes, Head(ids)) THEN UnwrapEach(nodes, Tail(ids))
    ELSE UnwrapEach(ReplaceNode(nodes, Head(ids), NodeById(nodes, Head(ids)).kids),
                    Tail(ids))

UnwrapNeutral(nodes) == UnwrapEach(nodes, QueryPlSmi(nodes))

RECURSIVE FlattenEach(_, _, _)
\* step 3, one run of the for loop over the static list 'span span': an
\* inner span whose parent element is a span with the same className
\* string gives its children to the parent and is removed
FlattenEach(nodes, ids, changed) ==
    IF ids = <<>> THEN [nodes |-> nodes, changed |-> changed]
    ELSE LET inner == NodeById(nodes, Head(ids))
             pid == ParentId(nodes, Head(ids))
         IN IF pid # 0 /\ NodeById(nodes, pid).tag = "span"
               /\ NodeById(nodes, pid).cls = inner.cls
            THEN FlattenEach(ReplaceNode(nodes, inner.id, inner.kids), Tail(ids), TRUE)
            ELSE FlattenEach(nodes, Tail(ids), changed)

\* step 3, one iteration of while (changed)
FlattenPass(nodes) == FlattenEach(nodes, SpanDescendants(nodes, FALSE), FALSE)

RECURSIVE FlattenLoop(_)
\* step 3: while (changed) { ... }
FlattenLoop(nodes) ==
    LET r == FlattenPass(nodes)
    IN IF r.changed THEN FlattenLoop(r.nodes) ELSE r.nodes

RECURSIVE RemoveEmptyEach(_, _)
\* step 4, the forEach over the static list of all spans, in document
\* order: a span with empty textContent and no element child is removed
RemoveEmptyEach(nodes, ids) ==
    IF ids = <<>> THEN nodes
    ELSE IF ~HasNode(nodes, Head(ids)) THEN RemoveEmptyEach(nodes, Tail(ids))
    ELSE LET sp == NodeById(nodes, Head(ids))
         IN IF TextContent(sp.kids) = <<>> /\ Elements(sp.kids) = <<>>
            THEN RemoveEmptyEach(ReplaceNode(nodes, sp.id, <<>>), Tail(ids))
            ELSE RemoveEmptyEach(nodes, Tail(ids))

\* step 4: tempDiv.normalize(), then the removal of empty spans
CleanUp(nodes) ==
    LET merged == MergeText(nodes)
    IN RemoveEmptyEach(merged,
           Ids(SelectSeq(Elements(merged), LAMBDA e : e.tag = "span")))

\* normalizedHTML of one result: the key groupResults groups by
Canon(html) ==
    Serialize(CleanUp(FlattenLoop(UnwrapNeutral(NormalizeContainer(SetInnerHTML(html))))))

\* ------------------------------------------------------------ fragments

\* the class attributes a span of a generated fragment may carry
SpanClasses ==
    {[h |-> FALSE, c |-> <<>>],
     [h |-> TRUE, c |-> <<"pl-c">>],
     [h |-> TRUE, c |-> <<"pl-c", " ">>],
     [h |-> TRUE, c |-> <<"pl-smi">>],
     [h |-> TRUE, c |-> <<"pl-smi", " ", "pl-k">>]}

RECURSIVE TreesOf(_)
RECURSIVE ForestsOf(_)
\* the trees of exactly n nodes: a text node, or a span over a forest
TreesOf(n) ==
    (IF n = 1 THEN {TextNode(<<"x">>)} ELSE {})
    \cup {Elem(0, "span", c.h, c.c, f) : c \in SpanClasses, f \in ForestsOf(n - 1)}

\* the sequences of trees of exactly n nodes in all
ForestsOf(n) ==
    IF n = 0 THEN {<<>>}
    ELSE UNION {{<<t>> \o f : t \in TreesOf(k), f \in ForestsOf(n - k)} : k \in 1..n}

Div(cls, kids) == Elem(0, "div", TRUE, cls, kids)
Pre(kids) == Elem(0, "pre", FALSE, <<>>, kids)
PlC(kids) == Elem(0, "span", TRUE, <<"pl-c">>, kids)
X == TextNode(<<"x">>)

\* a fragment in the container the rendering service gives a block whose
\* language it knows
InContainer(f) == <<Div(<<"highlight", " ", HS, "j", "s">>, <<Pre(f)>>)>>

\* the two shapes parseGitHubResponse returns: a pre element, or an element
\* of class highlight
CanonInputs ==
    UNION {{Serialize(<<Pre(f)>>), Serialize(InContainer(f))}
           : f \in UNION {ForestsOf(n) : n \in 0..MaxNodes}}


\* ------------------------------------------------------------ state

VARIABLES
    \* groupResults on one result, step by step
    chtml,            \* result.codeBlockHTML
    dom,              \* the children of tempDiv
    cpc,              \* the statement about to run
    changed,          \* let changed
    passes,           \* iterations of while (changed) done so far
    normalizedHTML,   \* const normalizedHTML
    \* groupResults on a list of results, one forEach iteration at a time
    results,          \* the argument
    gidx,             \* the index of the next result of results.forEach
    grouped,          \* const grouped: Map from normalizedHTML
    order,            \* const order: string[]
    placed,           \* for each result handled, the position in order of the
                      \* entry its langName was pushed to
    groups,           \* the value returned
    gpc,              \* "loop", then "done"
    \* parseGitHubResponse, one forEach iteration at a time
    phtml,            \* the argument
    pdom,             \* the children of tempDiv
    headers,          \* const headers: the marker h2 elements
    hidx,             \* the index of the next header of headers.forEach
    found,            \* for each header handled: its langName, its codeBlock
                      \* (0 for null) and whether a result was pushed
    presults,         \* const results
    ppc,              \* "parse", "loop", then "done"
    \* the page: the input listeners, the debounce timer, updateHighlighting
    text,             \* codeInput.value.trim(): <<>> or a text
    currentToken,     \* let currentToken
    tokenOpen,        \* tokenSection.classList holds 'open'
    timer,            \* debounceTimer is pending
    calls,            \* updateHighlighting calls started so far
    requests,         \* the calls suspended at await octokit.request(...)
    container,        \* resultsContainer's children, each with the call that
                      \* appended it
    statusText,       \* statusText's content
    inputs            \* input events so far

canonVars == <<chtml, dom, cpc, changed, passes, normalizedHTML>>
groupVars == <<results, gidx, grouped, order, placed, groups, gpc>>

parseVars == <<phtml, pdom, headers, hidx, found, presults, ppc>>

uiVars ==
    <<text, currentToken, tokenOpen, timer, calls, requests, container, statusText,
      inputs>>

vars == <<canonVars, groupVars, parseVars, uiVars>>

CanonIdle ==
    /\ chtml = <<>> /\ dom = <<>> /\ cpc = "idle" /\ changed = FALSE
    /\ passes = 0 /\ normalizedHTML = <<>>

\* new Map()
EmptyMap == [k \in {} |-> <<>>]

GroupIdle ==
    /\ results = <<>> /\ gidx = 0 /\ grouped = EmptyMap /\ order = <<>>
    /\ placed = <<>> /\ groups = <<>> /\ gpc = "idle"

ParseIdle ==
    /\ phtml = <<>> /\ pdom = <<>> /\ headers = <<>> /\ hidx = 0
    /\ found = <<>> /\ presults = <<>> /\ ppc = "idle"

UiIdle ==
    /\ text = <<>> /\ currentToken = "" /\ tokenOpen = FALSE /\ timer = FALSE
    /\ calls = 0 /\ requests = {} /\ container = <<>> /\ statusText = "idle"
    /\ inputs = 0

\* ------------------------------------------------------------ SpecCanon
\* groupResults called with one result, one step of the forEach body at a time

InitCanon ==
    /\ chtml \in CanonInputs
    /\ dom = <<>>
    /\ cpc = "parse"
    /\ changed = FALSE
    /\ passes = 0
    /\ normalizedHTML = <<>>
    /\ GroupIdle
    /\ ParseIdle
    /\ UiIdle

\* tempDiv.innerHTML = result.codeBlockHTML
CanonParse ==
    /\ cpc = "parse"
    /\ dom' = SetInnerHTML(chtml)
    /\ cpc' = "normalize"
    /\ UNCHANGED <<chtml, changed, passes, normalizedHTML>>
    /\ UNCHANGED <<groupVars, parseVars, uiVars>>

\* 1. Normalize container class
CanonNormalize ==
    /\ cpc = "normalize"
    /\ dom' = NormalizeContainer(dom)
    /\ cpc' = "unwrap"
    /\ UNCHANGED <<chtml, changed, passes, normalizedHTML>>
    /\ UNCHANGED <<groupVars, parseVars, uiVars>>

\* 2. Remove "neutral" spans; then let changed = true
CanonUnwrap ==
    /\ cpc = "unwrap"
    /\ dom' = UnwrapNeutral(dom)
    /\ changed' = TRUE
    /\ cpc' = "flatten"
    /\ UNCHANGED <<chtml, passes, normalizedHTML>>
    /\ UNCHANGED <<groupVars, parseVars, uiVars>>

\* 3. one iteration of while (changed)
CanonFlattenPass ==
    /\ cpc = "flatten"
    /\ changed
    /\ dom' = FlattenPass(dom).nodes
    /\ changed' = FlattenPass(dom).changed
    /\ passes' = passes + 1
    /\ UNCHANGED <<chtml, cpc, normalizedHTML>>
    /\ UNCHANGED <<groupVars, parseVars, uiVars>>

\* 4. Clean up, and const normalizedHTML = tempDiv.innerHTML
CanonCleanUp ==
    /\ cpc = "flatten"
    /\ ~changed
    /\ dom' = CleanUp(dom)
    /\ normalizedHTML' = Serialize(CleanUp(dom))
    /\ cpc' = "done"
    /\ UNCHANGED <<chtml, changed, passes>>
    /\ UNCHANGED <<groupVars, parseVars, uiVars>>

NextCanon ==
    \/ CanonParse
    \/ CanonNormalize
    \/ CanonUnwrap
    \/ CanonFlattenPass
    \/ CanonCleanUp

SpecCanon == InitCanon /\ [][NextCanon]_vars


\* ------------------------------------------------------------ SpecGroup
\* groupResults(results)

\* the sequence position of key k in order
IndexOf(seq, k) == CHOOSE i \in 1..Len(seq) : seq[i] = k

\* GroupOne with normalizedHTML lost: the map is keyed by the markup as received
GroupOneRawKey(g, result) ==
    LET key == result.codeBlockHTML
        isNew == key \notin DOMAIN g.grouped
        g1 == IF isNew
              THEN g.grouped @@ (key :> [langNames |-> <<>>,
                                         originalHTML |-> result.codeBlockHTML])
              ELSE g.grouped
    IN [grouped |-> [g1 EXCEPT ![key].langNames = Append(@, result.langName)],
        order |-> IF isNew THEN Append(g.order, key) ELSE g.order,
        key |-> key]

\* GroupOne with originalHTML lost: the normalized markup is kept as representative
GroupOneKeepsKey(g, result) ==
    LET key == Canon(result.codeBlockHTML)
        isNew == key \notin DOMAIN g.grouped
        g1 == IF isNew
              THEN g.grouped @@ (key :> [langNames |-> <<>>, originalHTML |-> key])
              ELSE g.grouped
    IN [grouped |-> [g1 EXCEPT ![key].langNames = Append(@, result.langName)],
        order |-> IF isNew THEN Append(g.order, key) ELSE g.order,
        key |-> key]

\* one iteration of results.forEach, on g = [grouped, order]: the key is
\* computed, a new key gets an entry holding the ORIGINAL markup and is
\* appended to order, and the langName is pushed to the key's entry
GroupOne(g, result) ==
    LET key == Canon(result.codeBlockHTML)
        isNew == key \notin DOMAIN g.grouped
        g1 == IF isNew
              THEN g.grouped @@ (key :> [langNames |-> <<>>,
                                         originalHTML |-> result.codeBlockHTML])
              ELSE g.grouped
    IN [grouped |-> [g1 EXCEPT ![key].langNames = Append(@, result.langName)],
        order |-> IF isNew THEN Append(g.order, key) ELSE g.order,
        key |-> key]

\* return order.map(normalized => ...)
GroupsOf(g) ==
    [i \in 1..Len(g.order) |->
        [langNames |-> g.grouped[g.order[i]].langNames,
         codeBlockHTML |-> g.grouped[g.order[i]].originalHTML]]

RECURSIVE GroupAll(_, _)
GroupAll(g, rs) == IF rs = <<>> THEN g ELSE GroupAll(GroupOne(g, Head(rs)), Tail(rs))

\* groupResults as a function
GroupResults(rs) == GroupsOf(GroupAll([grouped |-> EmptyMap, order |-> <<>>], rs))

\* the markup of the results groupResults is called with
GroupFragments ==
    {Serialize(<<Div(<<"highlight", " ", HS, "j", "s">>, <<Pre(<<X>>)>>)>>),
     Serialize(<<Div(<<"highlight", " ", HS, "p", "y">>, <<Pre(<<X>>)>>)>>),
     Serialize(<<Div(<<"highlight", " ", HS, "j", "s">>, <<Pre(<<PlC(<<X>>)>>)>>)>>),
     Serialize(<<Div(<<"highlight", " ", HS, "c", "+", "+">>,
                     <<Pre(<<PlC(<<PlC(<<X>>)>>)>>)>>)>>),
     Serialize(<<Elem(0, "pre", TRUE, <<HS, "j", "s">>, <<X>>)>>),
     Serialize(<<Elem(0, "pre", TRUE, <<HS, "p", "y">>, <<X>>)>>)}

LangNames == {"A", "B"}

GroupInputs ==
    UNION {[1..n -> [langName : LangNames, codeBlockHTML : GroupFragments]]
           : n \in 0..MaxResults}

InitGroup ==
    /\ results \in GroupInputs
    /\ gidx = 1
    /\ grouped = EmptyMap
    /\ order = <<>>
    /\ placed = <<>>
    /\ groups = <<>>
    /\ gpc = "loop"
    /\ CanonIdle
    /\ ParseIdle
    /\ UiIdle

\* results.forEach(result => { ... }), one iteration
GroupStep ==
    /\ gpc = "loop"
    /\ gidx <= Len(results)
    /\ LET g == GroupOne([grouped |-> grouped, order |-> order], results[gidx])
       IN /\ grouped' = g.grouped
          /\ order' = g.order
          /\ placed' = Append(placed, IndexOf(g.order, g.key))
    /\ gidx' = gidx + 1
    /\ UNCHANGED <<results, groups, gpc>>
    /\ UNCHANGED <<canonVars, parseVars, uiVars>>

\* return order.map(...)
GroupReturn ==
    /\ gpc = "loop"
    /\ gidx > Len(results)
    /\ groups' = GroupsOf([grouped |-> grouped, order |-> order])
    /\ gpc' = "done"
    /\ UNCHANGED <<results, gidx, grouped, order, placed>>
    /\ UNCHANGED <<canonVars, parseVars, uiVars>>

NextGroup ==
    \/ GroupStep
    \/ GroupReturn

SpecGroup == InitGroup /\ [][NextGroup]_vars


\* ------------------------------------------------------------ SpecParse
\* parseGitHubResponse(html)

LANG_NAME == <<"L", "A", "N", "G", "_", "N", "A", "M", "E", ":">>
UU_LANG == <<"_", "_", "L", "A", "N", "G", "_", "_", ":">>
LANG == <<"L", "A", "N", "G", ":">>

\* h.textContent?.trim()
HeaderText(h) == Trim(TextContent(h.kids))

\* the filter of querySelectorAll('h2')
IsMarker(h) ==
    \/ StartsWith(HeaderText(h), LANG_NAME)
    \/ StartsWith(HeaderText(h), UU_LANG)
    \/ StartsWith(HeaderText(h), LANG)

\* const headers
MarkerHeaders(nodes) ==
    Ids(SelectSeq(Elements(nodes), LAMBDA e : e.tag = "h2" /\ IsMarker(e)))

\* const langName: three replace calls, one after the other
LangNameOf(h) ==
    ReplaceFirst(ReplaceFirst(ReplaceFirst(HeaderText(h), LANG_NAME), UU_LANG), LANG)

\* the children of the parent of the element id (of tempDiv when id is at
\* the top)
SiblingsOf(nodes, id) ==
    IF ParentId(nodes, id) = 0 THEN nodes ELSE NodeById(nodes, ParentId(nodes, id)).kids

\* the element siblings that follow the element id, in order
FollowingElements(nodes, id) ==
    LET sibs == SiblingsOf(nodes, id)
        at == CHOOSE i \in 1..Len(sibs) : ~IsText(sibs[i]) /\ sibs[i].id = id
    IN SelectSeq(SubSeq(sibs, at + 1, Len(sibs)), LAMBDA n : ~IsText(n))

\* Element.nextElementSibling: 0 for null
NextElementSibling(nodes, id) ==
    IF FollowingElements(nodes, id) = <<>> THEN 0
    ELSE FollowingElements(nodes, id)[1].id

\* ScanStart without the wrapper case: always header.nextElementSibling
ScanStartIgnoresWrapper(nodes, hid) == NextElementSibling(nodes, hid)

\* let current: the next sibling of the markdown-heading wrapper when the
\* header's parent is one, of the header otherwise
ScanStart(nodes, hid) ==
    IF ParentId(nodes, hid) # 0
       /\ ClassListContains(NodeById(nodes, ParentId(nodes, hid)).cls, "markdown-heading")
    THEN NextElementSibling(nodes, ParentId(nodes, hid))
    ELSE NextElementSibling(nodes, hid)

RECURSIVE Scan(_, _)
\* the while loop: codeBlock, 0 for null
Scan(nodes, current) ==
    IF current = 0 THEN 0
    ELSE LET n == NodeById(nodes, current)
         IN IF n.tag = "h2" \/ ClassListContains(n.cls, "markdown-heading") THEN 0
            ELSE IF ClassListContains(n.cls, "highlight") \/ n.tag = "pre" THEN current
            ELSE Scan(nodes, NextElementSibling(nodes, current))

\* HasHighlighting with the attribute test lost: querySelector('span')
HasHighlightingAnySpan(block) ==
    \E i \in 1..Len(Elements(block.kids)) : Elements(block.kids)[i].tag = "span"

\* codeBlock.querySelector('span[class]') !== null: a descendant span that
\* has a class attribute
HasHighlighting(block) ==
    \E i \in 1..Len(Elements(block.kids)) :
        Elements(block.kids)[i].tag = "span" /\ Elements(block.kids)[i].hasClass

\* one iteration of headers.forEach
HeaderOutcome(nodes, hid) ==
    LET langName == LangNameOf(NodeById(nodes, hid))
        codeBlock == Scan(nodes, ScanStart(nodes, hid))
    IN [header |-> hid,
        langName |-> langName,
        codeBlock |-> codeBlock,
        pushed |-> codeBlock # 0 /\ langName # <<>>
                   /\ HasHighlighting(NodeById(nodes, codeBlock))]

\* the result pushed for an outcome
ResultOf(nodes, o) ==
    [langName |-> o.langName,
     codeBlockHTML |-> Serialize(<<NodeById(nodes, o.codeBlock)>>)]

RECURSIVE ParseEach(_, _)
ParseEach(nodes, hs) ==
    IF hs = <<>> THEN <<>>
    ELSE (IF HeaderOutcome(nodes, Head(hs)).pushed
          THEN <<ResultOf(nodes, HeaderOutcome(nodes, Head(hs)))>> ELSE <<>>)
         \o ParseEach(nodes, Tail(hs))

\* parseGitHubResponse as a function
ParseGitHubResponse(html) ==
    ParseEach(SetInnerHTML(html), MarkerHeaders(SetInnerHTML(html)))

H2(t) == Elem(0, "h2", FALSE, <<>>, <<TextNode(t)>>)

\* <div class="markdown-heading"><h2 class="heading-element">..</h2><a class="anchor"></a></div>
Wrapped(h2kids) ==
    Elem(0, "div", TRUE, <<"markdown-heading">>,
         <<Elem(0, "h2", TRUE, <<"heading-element">>, h2kids),
           Elem(0, "a", TRUE, <<"anchor">>, <<>>)>>)

\* the top-level nodes a response document is made of
DocItems ==
    {H2(LANG_NAME \o <<"a">>),
     Wrapped(<<TextNode(LANG_NAME \o <<"b">>)>>),
     Wrapped(<<Elem(0, "strong", FALSE, <<>>, <<TextNode(<<"L", "A", "N", "G">>)>>),
               TextNode(<<":", "c">>)>>),
     H2(<<"a">>),
     Elem(0, "p", FALSE, <<>>, <<X>>),
     TextNode(<<" ">>),
     Div(<<"highlight", " ", HS, "j", "s">>,
         <<Pre(<<Elem(0, "span", TRUE, <<"pl-k">>, <<X>>)>>)>>),
     Pre(<<Elem(0, "span", FALSE, <<>>, <<X>>)>>),
     Pre(<<Elem(0, "span", TRUE, <<>>, <<X>>)>>)}

\* the pieces a marker heading's text is made of
Chunks == {LANG_NAME, UU_LANG, LANG, <<"a">>, <<" ">>}

RECURSIVE TextsOf(_)
\* the texts of exactly n chunks
TextsOf(n) ==
    IF n = 0 THEN {<<>>} ELSE {c \o t : c \in Chunks, t \in TextsOf(n - 1)}

ParseInputs ==
    {Serialize(d) : d \in UNION {[1..n -> DocItems] : n \in 0..MaxDocLen}}
    \cup {Serialize(<<H2(t), Pre(<<PlC(<<X>>)>>)>>)
          : t \in UNION {TextsOf(n) : n \in 1..MaxChunks}}

InitParse ==
    /\ phtml \in ParseInputs
    /\ pdom = <<>>
    /\ headers = <<>>
    /\ hidx = 0
    /\ found = <<>>
    /\ presults = <<>>
    /\ ppc = "parse"
    /\ CanonIdle
    /\ GroupIdle
    /\ UiIdle

\* tempDiv.innerHTML = html; const headers = ...filter(...)
ParseStart ==
    /\ ppc = "parse"
    /\ pdom' = SetInnerHTML(phtml)
    /\ headers' = MarkerHeaders(SetInnerHTML(phtml))
    /\ hidx' = 1
    /\ ppc' = "loop"
    /\ UNCHANGED <<phtml, found, presults>>
    /\ UNCHANGED <<canonVars, groupVars, uiVars>>

\* headers.forEach((header) => { ... }), one iteration
ParseHeader ==
    /\ ppc = "loop"
    /\ hidx <= Len(headers)
    /\ LET o == HeaderOutcome(pdom, headers[hidx])
       IN /\ found' = Append(found, o)
          /\ presults' = IF o.pushed THEN Append(presults, ResultOf(pdom, o))
                         ELSE presults
    /\ hidx' = hidx + 1
    /\ UNCHANGED <<phtml, pdom, headers, ppc>>
    /\ UNCHANGED <<canonVars, groupVars, uiVars>>

\* return results
ParseReturn ==
    /\ ppc = "loop"
    /\ hidx > Len(headers)
    /\ ppc' = "done"
    /\ UNCHANGED <<phtml, pdom, headers, hidx, found, presults>>
    /\ UNCHANGED <<canonVars, groupVars, uiVars>>

NextParse ==
    \/ ParseStart
    \/ ParseHeader
    \/ ParseReturn

SpecParse == InitParse /\ [][NextParse]_vars

\* ------------------------------------------------------------ SpecUI
\* the listeners registered after the language list has loaded, and
\* updateHighlighting

RECURSIVE InsertBySize(_, _)
\* g put into a list sorted by falling langNames.length, after its equals
InsertBySize(sorted, g) ==
    IF sorted = <<>> THEN <<g>>
    ELSE IF Len(Head(sorted).langNames) >= Len(g.langNames)
    THEN <<Head(sorted)>> \o InsertBySize(Tail(sorted), g)
    ELSE <<g>> \o sorted

RECURSIVE SortBySize(_)
\* grouped.sort((a, b) => b.langNames.length - a.langNames.length): stable
SortBySize(gs) ==
    IF gs = <<>> THEN <<>>
    ELSE InsertBySize(SortBySize(SubSeq(gs, 1, Len(gs) - 1)), gs[Len(gs)])

\* the containers appended for a response, each marked with the call
BlocksOf(call, data) ==
    LET sorted == SortBySize(GroupResults(ParseGitHubResponse(data)))
    IN [i \in 1..Len(sorted) |->
           [call |-> call, langNames |-> sorted[i].langNames,
            content |-> sorted[i].codeBlockHTML]]

Highlighted(src, kids) == Div(<<"highlight", " ", HS>> \o src, <<Pre(kids)>>)

\* the documents the rendering service answers with
Responses ==
    {Serialize(<<H2(LANG_NAME \o <<"a">>), Highlighted(<<"j", "s">>, <<PlC(<<X>>)>>),
                 H2(LANG_NAME \o <<"b">>), Highlighted(<<"p", "y">>, <<X, PlC(<<X>>)>>),
                 H2(LANG_NAME \o <<"c">>), Highlighted(<<"c">>, <<PlC(<<PlC(<<X>>)>>)>>)>>),
     Serialize(<<H2(LANG_NAME \o <<"a">>), Pre(<<X>>)>>)}

\* what the user may have typed
Texts == {<<>>, <<"x">>, <<"y">>}
Tokens == {"", "ghp"}

\* the ways octokit.request can fail
Failures == {"rateLimit", "unauthorized", "other"}

InitUI ==
    /\ text = <<>>
    /\ currentToken \in Tokens
    /\ tokenOpen = FALSE
    /\ timer = FALSE
    /\ calls = 0
    /\ requests = {}
    /\ container = <<>>
    /\ statusText = "default"
    /\ inputs = 0
    /\ CanonIdle
    /\ GroupIdle
    /\ ParseIdle

\* tokenToggle's click listener
ToggleToken ==
    /\ tokenOpen' = ~tokenOpen
    /\ UNCHANGED <<text, currentToken, timer, calls, requests, container, statusText,
                   inputs>>
    /\ UNCHANGED <<canonVars, groupVars, parseVars>>

\* codeInput's input listener: the pending timer is cleared and a new one set
CodeInput ==
    /\ inputs < MaxInputs
    /\ \E t \in Texts \ {text} : text' = t
    /\ timer' = TRUE
    /\ inputs' = inputs + 1
    /\ UNCHANGED <<currentToken, tokenOpen, calls, requests, container, statusText>>
    /\ UNCHANGED <<canonVars, groupVars, parseVars>>

\* tokenInput's input listener
TokenInput ==
    /\ inputs < MaxInputs
    /\ \E t \in Tokens \ {currentToken} : currentToken' = t
    /\ timer' = TRUE
    /\ inputs' = inputs + 1
    /\ UNCHANGED <<text, tokenOpen, calls, requests, container, statusText>>
    /\ UNCHANGED <<canonVars, groupVars, parseVars>>

\* the timer fires: updateHighlighting up to its return (no text) or up to
\* await octokit.request(...).  The request body, generateMarkdown(text,
\* languages), is handed to the service and not read again.
TimerFires ==
    /\ timer
    /\ timer' = FALSE
    /\ calls' = calls + 1
    /\ container' = <<>>
    /\ IF text = <<>>
       THEN /\ statusText' = "default"
            /\ UNCHANGED requests
       ELSE /\ statusText' = "rendering"
            /\ requests' = requests \cup {calls + 1}
    /\ UNCHANGED <<text, currentToken, tokenOpen, inputs>>
    /\ UNCHANGED <<canonVars, groupVars, parseVars>>

\* the request of a call resolves: updateHighlighting from "Success!" to
\* its end
ResponseArrives ==
    /\ \E c \in requests, data \in Responses :
          /\ requests' = requests \ {c}
          /\ container' = container \o BlocksOf(c, data)
          /\ statusText' = IF Len(ParseGitHubResponse(data)) > 0 THEN "showing"
                           ELSE "none"
    /\ tokenOpen' = IF currentToken # "" THEN FALSE ELSE tokenOpen
    /\ UNCHANGED <<text, currentToken, timer, calls, inputs>>
    /\ UNCHANGED <<canonVars, groupVars, parseVars>>

\* the request of a call rejects: the catch block
RequestFails ==
    /\ \E c \in requests, e \in Failures :
          /\ requests' = requests \ {c}
          /\ statusText' = e
          /\ tokenOpen' = IF e \in {"rateLimit", "unauthorized"} THEN TRUE ELSE tokenOpen
    /\ UNCHANGED <<text, currentToken, timer, calls, container, inputs>>
    /\ UNCHANGED <<canonVars, groupVars, parseVars>>

NextUI ==
    \/ ToggleToken
    \/ CodeInput
    \/ TokenInput
    \/ TimerFires
    \/ ResponseArrives
    \/ RequestFails

SpecUI == InitUI /\ [][NextUI]_vars

\* ------------------------------------------------------------ claims on SpecUI

\* C10: once no request is in flight, the results container holds exactly
\* the groups of the most recently started updateHighlighting call: nothing
\* of an earlier call, nothing twice.
ContainerShowsLatestCall ==
    requests = {} =>
        \/ container = <<>>
        \/ \E data \in Responses : container = BlocksOf(calls, data)

\* ------------------------------------------------------------ claims on SpecParse

\* the document with its top-level node i, an h2, put in a markdown-heading
\* wrapper of its own, as the newer responses have it
WrapAt(nodes, i) ==
    [nodes EXCEPT ![i] = Elem(0, "div", TRUE, <<"markdown-heading">>,
                              <<nodes[i], Elem(0, "a", TRUE, <<"anchor">>, <<>>)>>)]

\* the element whose following siblings are a header's chain: the
\* markdown-heading wrapper when the header is the child of one
ChainOwner(nodes, hid) ==
    LET par == ParentId(nodes, hid)
    IN IF par # 0
          /\ <<"markdown-heading">> \in {Split(NodeById(nodes, par).cls)[t]
                                           : t \in 1..Len(Split(NodeById(nodes, par).cls))}
       THEN par ELSE hid

IsBoundary(n) == n.tag = "h2" \/ ClassListContains(n.cls, "markdown-heading")
IsCandidate(n) == n.tag = "pre" \/ ClassListContains(n.cls, "highlight")

\* the block of a chain: the first candidate that comes before the first
\* boundary, 0 when there is none
BlockOfChain(sibs) ==
    LET b == Min({j \in 1..Len(sibs) : IsBoundary(sibs[j])} \cup {Len(sibs) + 1})
        c == Min({j \in 1..Len(sibs) : IsCandidate(sibs[j])} \cup {Len(sibs) + 1})
    IN IF c < b THEN sibs[c].id ELSE 0

\* C5: a marker heading gives the same result list whether its h2 stands
\* alone or is wrapped in a markdown-heading element followed by the same
\* siblings, and a header's block is the first candidate of its chain that
\* lies before the next h2 or markdown-heading element: none beyond it.
WrapperMakesNoDifference ==
    ppc = "done" =>
        /\ \A i \in 1..Len(pdom) :
              (~IsText(pdom[i]) /\ pdom[i].tag = "h2" /\ IsMarker(pdom[i]))
              => ParseGitHubResponse(Serialize(WrapAt(pdom, i))) = presults
        /\ \A k \in 1..Len(found) :
              found[k].codeBlock
              = BlockOfChain(FollowingElements(pdom, ChainOwner(pdom, found[k].header)))

\* a bare marker h2 whose chain ends at the next wrapper without a block,
\* and a wrapped marker h2 whose block is found after the wrapper
WrapperMakesNoDifferenceWitness ==
    /\ ppc = "done"
    /\ Len(found) = 2
    /\ ParentId(pdom, found[1].header) = 0
    /\ found[1].codeBlock = 0
    /\ ParentId(pdom, found[2].header) # 0
    /\ found[2].pushed
    /\ Len(presults) = 1

\* the outcomes that pushed a result, in order
RECURSIVE Pushed(_)
Pushed(os) ==
    IF os = <<>> THEN <<>>
    ELSE (IF Head(os).pushed THEN <<Head(os)>> ELSE <<>>) \o Pushed(Tail(os))

\* a descendant element of the block with a non-empty class list
HasClassBearingElement(block) ==
    \E i \in 1..Len(Elements(block.kids)) : Split(Elements(block.kids)[i].cls) # <<>>

\* a descendant span of the block with a class attribute, empty or not
HasSpanWithClassAttribute(block) ==
    \E i \in 1..Len(Elements(block.kids)) :
        Elements(block.kids)[i].tag = "span" /\ Elements(block.kids)[i].hasClass

\* the results are those of the headers that pushed one, in document order
ResultsFollowHeaders ==
    /\ Len(presults) = Len(Pushed(found))
    /\ \A n \in 1..Len(presults) :
          /\ presults[n].langName = Pushed(found)[n].langName
          /\ presults[n].codeBlockHTML
             = Serialize(<<NodeById(pdom, Pushed(found)[n].codeBlock)>>)
    /\ \A k1, k2 \in 1..Len(found) : k1 < k2 => found[k1].header < found[k2].header

\* C6 as stated: every entry's codeBlockHTML has a descendant element with
\* a non-empty class list, a marker heading whose block is missing or has
\* no such descendant is left out, and the entries keep document order.
EntriesHaveClassBearingElement ==
    ppc = "done" =>
        /\ \A n \in 1..Len(presults) :
              HasClassBearingElement(SetInnerHTML(presults[n].codeBlockHTML)[1])
        /\ \A k \in 1..Len(found) :
              (found[k].codeBlock = 0
               \/ ~HasClassBearingElement(NodeById(pdom, found[k].codeBlock)))
              => ~found[k].pushed
        /\ ResultsFollowHeaders

\* C6 as amended: every entry's codeBlockHTML has a descendant span element
\* with a class attribute (which may be empty), a marker heading whose
\* block is missing or has no such span is left out, and the entries keep
\* document order.
EntriesHaveSpanWithClass ==
    ppc = "done" =>
        /\ \A n \in 1..Len(presults) :
              HasSpanWithClassAttribute(SetInnerHTML(presults[n].codeBlockHTML)[1])
        /\ \A k \in 1..Len(found) :
              (found[k].codeBlock = 0
               \/ ~HasSpanWithClassAttribute(NodeById(pdom, found[k].codeBlock)))
              => ~found[k].pushed
        /\ ResultsFollowHeaders

\* two marker headings: the block of the first has a span with no class
\* attribute and gives no entry, the block of the second is highlighted
EntriesHaveSpanWithClassWitness ==
    /\ ppc = "done"
    /\ Len(found) = 2
    /\ found[1].codeBlock # 0 /\ found[1].langName # <<>> /\ ~found[1].pushed
    /\ found[2].pushed
    /\ Len(presults) = 1

\* the trimmed text of a marker heading without the one prefix it starts with
WithoutLeadingPrefix(t) ==
    IF StartsWith(t, LANG_NAME) THEN SubSeq(t, Len(LANG_NAME) + 1, Len(t))
    ELSE IF StartsWith(t, UU_LANG) THEN SubSeq(t, Len(UU_LANG) + 1, Len(t))
    ELSE SubSeq(t, Len(LANG) + 1, Len(t))

\* C7: the langName of a marker heading is its trimmed text with exactly
\* the one leading prefix removed; the rest of the text, further prefix
\* strings included, is kept.
OnlyLeadingPrefixRemoved ==
    ppc = "done" =>
        \A k \in 1..Len(found) :
            found[k].langName = WithoutLeadingPrefix(HeaderText(NodeById(pdom, found[k].header)))

\* ------------------------------------------------------------ claims on SpecGroup

\* the results placed at position k of order
Members(k) == {i \in 1..Len(placed) : placed[i] = k}

\* how often name occurs in a sequence of names
Count(names, name) == Cardinality({i \in 1..Len(names) : names[i] = name})

\* the members of S in increasing order
RECURSIVE Sorted(_)
Sorted(S) == IF S = {} THEN <<>> ELSE <<Min(S)>> \o Sorted(S \ {Min(S)})

\* C1: groupResults returns a partition of its input: the groups' langNames
\* together are the input's langNames with their multiplicities, each
\* result is placed in exactly one group, two results are placed in the
\* same group if and only if their canonical forms are the same string.
GroupsArePartition ==
    gpc = "done" =>
        /\ Len(placed) = Len(results)
        /\ \A i \in 1..Len(results) : placed[i] \in 1..Len(groups)
        /\ \A k \in 1..Len(groups) :
              /\ Members(k) # {}
              /\ \A name \in LangNames :
                    Count(groups[k].langNames, name)
                    = Cardinality({i \in Members(k) : results[i].langName = name})
        /\ \A i, j \in 1..Len(results) :
              (placed[i] = placed[j])
              <=> (Canon(results[i].codeBlockHTML) = Canon(results[j].codeBlockHTML))

\* three results, the first and the third canonically equal but textually
\* different, the second in a group of its own
GroupsArePartitionWitness ==
    /\ gpc = "done"
    /\ Len(results) = 3
    /\ Len(groups) = 2
    /\ placed = <<1, 2, 1>>
    /\ results[1].codeBlockHTML # results[3].codeBlockHTML

\* C2: the groups are in the order of their first members' input
\* positions, the langNames of a group are in input order, and a group's
\* codeBlockHTML is the markup of its first member as it was received.
GroupsKeepOrder ==
    gpc = "done" =>
        /\ \A k \in 1..Len(groups) :
              /\ Members(k) # {}
              /\ groups[k].langNames
                 = [n \in 1..Cardinality(Members(k)) |->
                       results[Sorted(Members(k))[n]].langName]
              /\ groups[k].codeBlockHTML = results[Min(Members(k))].codeBlockHTML
        /\ \A k1, k2 \in 1..Len(groups) :
              k1 < k2 => Min(Members(k1)) < Min(Members(k2))

\* a later member's markup and the canonical key both differ from the
\* first member's markup, and the groups interleave in the input
GroupsKeepOrderWitness ==
    /\ gpc = "done"
    /\ placed = <<1, 2, 1>>
    /\ results[1].langName = "B" /\ results[3].langName = "A"
    /\ results[1].codeBlockHTML # results[3].codeBlockHTML
    /\ results[1].codeBlockHTML # order[1]

RECURSIVE EraseSuffix(_)
\* a class attribute with every token of the form highlight-source-<ident>
\* cut back to highlight-source-
EraseSuffix(s) ==
    IF s = <<>> THEN <<>>
    ELSE IF Head(s) = " " THEN <<" ">> \o EraseSuffix(Tail(s))
    ELSE LET n == Cspan(s, {" "})
             tok == SubSeq(s, 1, n)
         IN (IF n >= 2 /\ tok[1] = HS /\ \A i \in 2..n : tok[i] \in IdentAtoms
             THEN <<HS>> ELSE tok)
            \o EraseSuffix(SubSeq(s, n + 1, Len(s)))

RECURSIVE EraseEverywhere(_)
\* a tree with the suffixes cut on every element
EraseEverywhere(nodes) ==
    IF nodes = <<>> THEN <<>>
    ELSE LET n == Head(nodes)
         IN (IF IsText(n) THEN <<n>>
             ELSE <<[n EXCEPT !.cls = EraseSuffix(n.cls),
                              !.kids = EraseEverywhere(n.kids)]>>)
            \o EraseEverywhere(Tail(nodes))

\* a tree with the suffixes cut on one element: the first, in document
\* order, that carries the class token highlight
EraseOnContainer(nodes) ==
    LET es == Elements(nodes)
        hit == {i \in 1..Len(es) : <<"highlight">> \in {Split(es[i].cls)[t] : t \in 1..Len(Split(es[i].cls))}}
    IN IF hit = {} THEN nodes
       ELSE ReplaceNode(nodes, es[Min(hit)].id,
                <<[es[Min(hit)] EXCEPT !.cls = EraseSuffix(es[Min(hit)].cls)]>>)

\* C4 as stated: two results that differ only in the suffixes of
\* highlight-source-<ident> class tokens, on whichever element, are placed
\* in the same group.
SourceSuffixIgnoredEverywhere ==
    gpc = "done" =>
        \A i, j \in 1..Len(results) :
            EraseEverywhere(SetInnerHTML(results[i].codeBlockHTML))
            = EraseEverywhere(SetInnerHTML(results[j].codeBlockHTML))
            => placed[i] = placed[j]

\* C4 as amended: two results that differ only in the suffixes of
\* highlight-source-<ident> class tokens of the first element that carries
\* the class token highlight are placed in the same group.
SourceSuffixIgnoredOnContainer ==
    gpc = "done" =>
        \A i, j \in 1..Len(results) :
            EraseOnContainer(SetInnerHTML(results[i].codeBlockHTML))
            = EraseOnContainer(SetInnerHTML(results[j].codeBlockHTML))
            => placed[i] = placed[j]

\* two results whose containers differ in the suffix only, grouped together
SourceSuffixIgnoredWitness ==
    /\ gpc = "done"
    /\ Len(results) = 2
    /\ results[1].codeBlockHTML # results[2].codeBlockHTML
    /\ EraseOnContainer(SetInnerHTML(results[1].codeBlockHTML))
       = EraseOnContainer(SetInnerHTML(results[2].codeBlockHTML))
    /\ Len(groups) = 1
    /\ groups[1].langNames = <<results[1].langName, results[2].langName>>


\* ------------------------------------------------------------ claims on SpecCanon

\* C3: canonicalization is idempotent: the canonical form of a canonical
\* form is that same string, also when the removal of an empty span has
\* left its parent span empty.
CanonIdempotent ==
    cpc = "done" => Canon(normalizedHTML) = normalizedHTML

RECURSIVE UnwrapExact(_)
\* a tree with each span whose class list is exactly ["pl-smi"] replaced,
\* in place, by its children in their order
UnwrapExact(nodes) ==
    IF nodes = <<>> THEN <<>>
    ELSE LET n == Head(nodes)
         IN (IF IsText(n) THEN <<n>>
             ELSE IF n.tag = "span" /\ Split(n.cls) = << <<"pl-smi">> >>
             THEN UnwrapExact(n.kids)
             ELSE <<[n EXCEPT !.kids = UnwrapExact(n.kids)]>>)
            \o UnwrapExact(Tail(nodes))

\* C8: step 2 unwraps exactly the spans whose class list is exactly
\* ["pl-smi"], each replaced at its position by its children in order; a
\* span that carries pl-smi with other class tokens stays in the tree.
UnwrapsExactlyPlSmi ==
    (cpc = "flatten" /\ passes = 0) =>
        dom = UnwrapExact(NormalizeContainer(SetInnerHTML(chtml)))

\* C9: the flattening loop ends, in the canonical form no span has a parent
\* span with the same class list (as a sequence of tokens), and the text in
\* document order is the text of the fragment.
NoNestedSameClass ==
    cpc = "done" =>
        LET t == SetInnerHTML(normalizedHTML)
            es == Elements(t)
        IN /\ passes <= Len(Elements(SetInnerHTML(chtml))) + 1
           /\ TextContent(t) = TextContent(SetInnerHTML(chtml))
           /\ \A i \in 1..Len(es) :
                 (es[i].tag = "span" /\ ParentId(t, es[i].id) # 0
                  /\ NodeById(t, ParentId(t, es[i].id)).tag = "span")
                 => Split(NodeById(t, ParentId(t, es[i].id)).cls) # Split(es[i].cls)

====
